---- MODULE Spec2Model ----
(***************************************************************************)
(* Two programs of the repository:                                         *)
(*   - the IntegrationDefinition constructor of the SDK:                   *)
(*     formatIntegrationDefinition followed by                             *)
(*     integrationDefinitionSchema.parse;                                  *)
(*   - the depsynky command bumpVersion (bump-versions.ts).                *)
(*                                                                         *)
(* A JavaScript object is a function whose DOMAIN is the set of its keys;  *)
(* a key holding undefined is a key that is not there.                     *)
(***************************************************************************)
EXTENDS Integers, Sequences, FiniteSets, TLC

VARIABLES
    \* new IntegrationDefinition(props)
    props,            \* the definition handed to the constructor
    instance,         \* the fields of the constructed IntegrationDefinition
    thrown,           \* what the constructor raised: "none", "TypeError", "ZodError"
    ctor,             \* "new", "constructed", "raised" ("idle": no constructor runs)
    \* bumpVersion(pkgName, argv)
    targetPackages,   \* [dependency, ...dependents], each with its manifest's content
    sync,             \* argv.sync
    files,            \* the version in each package's manifest on disk
    currentVersions,
    targetVersions,
    idx,              \* the place of the for loop in targetPackages
    pc,               \* "start", "loop", "listed", "done", "failed" ("idle": no command runs)
    prompts,          \* the prompts shown so far, each with the answer it got
    writes,           \* the manifests written so far
    error,            \* the error the command ended with
    listed,           \* how many times listVersions ran
    synced            \* the targetVersions each run of syncVersions received

defVars == <<props, instance, thrown, ctor>>

bumpVars ==
    <<targetPackages, sync, files, currentVersions, targetVersions, idx, pc, prompts,
      writes, error, listed, synced>>

vars == <<defVars, bumpVars>>

-----------------------------------------------------------------------------
(* JavaScript objects *)

EmptyObject == <<>>

Has(o, k) == k \in DOMAIN o

\* the object o restricted to the keys of ks it has
Pick(o, ks) == [k \in (DOMAIN o) \cap ks |-> o[k]]

\* { ...o, [k]: v }
With(o, k, v) == [x \in (DOMAIN o) \cup {k} |-> IF x = k THEN v ELSE o[x]]

\* { ...o, [k]: undefined }
Without(o, k) == [x \in (DOMAIN o) \ {k} |-> o[x]]

-----------------------------------------------------------------------------
(* ./schema: the schema declarations a definition carries and their        *)
(* JSON-Schema translation.  A declaration is a zod object schema: a shape *)
(* that gives every property a type and says whether it is optional.       *)

ZodString == [typeName |-> "ZodString", optional |-> FALSE]
ZodOptionalNumber == [typeName |-> "ZodNumber", optional |-> TRUE]

ZodEmpty == [typeName |-> "ZodObject", shape |-> EmptyObject]
ZodText == [typeName |-> "ZodObject", shape |-> [text |-> ZodString]]
ZodPair == [typeName |-> "ZodObject", shape |-> [id |-> ZodString, count |-> ZodOptionalNumber]]

jsonType(t) == IF t = "ZodString" THEN "string" ELSE "number"

zodToJsonSchema(z) ==
    [type |-> "object",
     properties |-> [k \in DOMAIN z.shape |-> [type |-> jsonType(z.shape[k].typeName)]],
     required |-> {k \in DOMAIN z.shape : ~z.shape[k].optional},
     additionalProperties |-> FALSE]

\* schemaDefinitionToJsonSchema(definition) has no declaration to translate:
\* definition is undefined, or definition.schema is
translationMissing(definition) == ~Has(definition, "schema")

schemaDefinitionToJsonSchema(definition) == zodToJsonSchema(definition.schema)

-----------------------------------------------------------------------------
(* formatIntegrationDefinition: every declared section gets the translation *)
(* of its declaration under "schema"; a section that is not declared stays  *)
(* undefined.  Where there is no declaration to translate, the translation  *)
(* raises or yields undefined (see Construct); the operators below give the *)
(* formatted definition of the second case, "schema" staying undefined.     *)

\* { ...x, schema: schemaDefinitionToJsonSchema(x) }
formatSchemaDefinition(x) ==
    IF translationMissing(x) THEN Without(x, "schema")
    ELSE With(x, "schema", schemaDefinitionToJsonSchema(x))

\* o[k], or undefined, which spreads to no key at all
Spread(o, k) == IF Has(o, k) THEN o[k] ELSE EmptyObject

formatAction(action) ==
    With(With(action, "input", formatSchemaDefinition(Spread(action, "input"))),
         "output", formatSchemaDefinition(Spread(action, "output")))

\* mapValues(channel.messages, ...)
formatChannel(channel) ==
    With(channel, "messages",
         [m \in DOMAIN channel.messages |-> formatSchemaDefinition(channel.messages[m])])

\* each section: definition.k ? ... : undefined, on top of ...definition
formatConfiguration(definition) ==
    IF Has(definition, "configuration")
    THEN With(definition, "configuration", formatSchemaDefinition(definition.configuration))
    ELSE Without(definition, "configuration")

\* the events are handed on as they are declared
formatEventsUntranslated(definition) == definition

formatEvents(definition) ==
    IF Has(definition, "events")
    THEN With(definition, "events",
              [k \in DOMAIN definition.events |-> formatSchemaDefinition(definition.events[k])])
    ELSE Without(definition, "events")

formatActions(definition) ==
    IF Has(definition, "actions")
    THEN With(definition, "actions",
              [k \in DOMAIN definition.actions |-> formatAction(definition.actions[k])])
    ELSE Without(definition, "actions")

formatChannels(definition) ==
    IF Has(definition, "channels")
    THEN With(definition, "channels",
              [k \in DOMAIN definition.channels |-> formatChannel(definition.channels[k])])
    ELSE Without(definition, "channels")

\* mapValues(definition.states ?? {}, ...): states that are not declared become {}
formatStatesMaterialised(definition) ==
    With(definition, "states",
         [k \in DOMAIN Spread(definition, "states") |->
             formatSchemaDefinition(definition.states[k])])

formatStates(definition) ==
    IF Has(definition, "states")
    THEN With(definition, "states",
              [k \in DOMAIN definition.states |-> formatSchemaDefinition(definition.states[k])])
    ELSE Without(definition, "states")

\* some call of schemaDefinitionToJsonSchema finds no declaration to translate
formatTranslationMissing(definition) ==
    \/ /\ Has(definition, "configuration")
       /\ translationMissing(definition.configuration)
    \/ /\ Has(definition, "events")
       /\ \E k \in DOMAIN definition.events : translationMissing(definition.events[k])
    \/ /\ Has(definition, "actions")
       /\ \E k \in DOMAIN definition.actions :
             \/ translationMissing(Spread(definition.actions[k], "input"))
             \/ translationMissing(Spread(definition.actions[k], "output"))
    \/ /\ Has(definition, "channels")
       /\ \E k \in DOMAIN definition.channels :
             /\ Has(definition.channels[k], "messages")
             /\ \E m \in DOMAIN definition.channels[k].messages :
                   translationMissing(definition.channels[k].messages[m])
    \/ /\ Has(definition, "states")
       /\ \E k \in DOMAIN definition.states : translationMissing(definition.states[k])

\* mapValues(channel.messages, ...) of a channel that has no messages: Object.keys
\* of undefined raises
formatMapValuesThrows(definition) ==
    /\ Has(definition, "channels")
    /\ \E k \in DOMAIN definition.channels : ~Has(definition.channels[k], "messages")

formatIntegrationDefinition(definition) ==
    formatStates(formatChannels(formatActions(formatEvents(formatConfiguration(definition)))))

-----------------------------------------------------------------------------
(* The fixed manifest schema.  For a zod schema S, SAccepts(v) says that    *)
(* S.parse(v) does not raise and SOutput(v) is what it returns: a z.object  *)
(* keeps the declared keys only, a passthrough object keeps them all.       *)

PUBLIC_VERSION == "0.2.0"
PRIVATE_VERSION == "0.0.1"

\* Object.keys(obj).length >= n - 1
nonEmptyDictOffByOne(obj, n) == Cardinality(DOMAIN obj) >= n - 1

\* r.refine((obj) => Object.keys(obj).length >= n)
nonEmptyDict(obj, n) == Cardinality(DOMAIN obj) >= n

\* z.object({}).passthrough()
schemaSchemaOutput(v) == v

\* z.object({ schema: schemaSchema }), for a configuration and for a message
configurationDefinitionSchemaAccepts(v) == Has(v, "schema")
configurationDefinitionSchemaOutput(v) == Pick(v, {"schema"})

messageDefinitionSchemaAccepts(v) == Has(v, "schema")
messageDefinitionSchemaOutput(v) == Pick(v, {"schema"})

eventDefinitionSchemaAccepts(v) == Has(v, "schema")
eventDefinitionSchemaOutput(v) == Pick(v, {"title", "description", "schema"})

actionDefinitionSchemaAccepts(v) ==
    /\ Has(v, "input") /\ Has(v.input, "schema")
    /\ Has(v, "output") /\ Has(v.output, "schema")
actionDefinitionSchemaOutput(v) ==
    [k \in (DOMAIN v) \cap {"title", "description", "input", "output"} |->
        IF k \in {"input", "output"} THEN Pick(v[k], {"schema"}) ELSE v[k]]

tagDefinitionSchemaOutput(v) == Pick(v, {"title", "description"})

\* z.object({ enabled: z.boolean(), requiredTags: z.array(z.string()) })
creationSchemaAccepts(v) == Has(v, "enabled") /\ Has(v, "requiredTags")
creationSchemaOutput(v) == Pick(v, {"enabled", "requiredTags"})

\* z.object({ tags, creation }).partial(), for a conversation and for the user;
\* a channel's message declares tags only
taggedSchemaAccepts(v, declared) ==
    ("creation" \in declared /\ Has(v, "creation")) => creationSchemaAccepts(v.creation)
taggedSchemaOutput(v, declared) ==
    [k \in (DOMAIN v) \cap declared |->
        IF k = "tags" THEN [x \in DOMAIN v.tags |-> tagDefinitionSchemaOutput(v.tags[x])]
        ELSE creationSchemaOutput(v.creation)]

channelDefinitionSchemaAccepts(v) ==
    /\ Has(v, "messages")
    /\ \A m \in DOMAIN v.messages : messageDefinitionSchemaAccepts(v.messages[m])
    /\ nonEmptyDict(v.messages, 1)
    /\ Has(v, "message") => taggedSchemaAccepts(v.message, {"tags"})
    /\ Has(v, "conversation") => taggedSchemaAccepts(v.conversation, {"tags", "creation"})
channelDefinitionSchemaOutput(v) ==
    [k \in (DOMAIN v) \cap {"title", "description", "messages", "message", "conversation"} |->
        CASE k = "messages" -> [x \in DOMAIN v.messages |-> messageDefinitionSchemaOutput(v.messages[x])]
          [] k = "message" -> taggedSchemaOutput(v.message, {"tags"})
          [] k = "conversation" -> taggedSchemaOutput(v.conversation, {"tags", "creation"})
          [] OTHER -> v[k]]

stateTypes == {"integration", "conversation", "user"}

\* type: z.string()
stateDefinitionSchemaAnyType(v) == Has(v, "type") /\ Has(v, "schema")

stateDefinitionSchemaAccepts(v) ==
    /\ Has(v, "type") /\ v.type \in stateTypes
    /\ Has(v, "schema")
stateDefinitionSchemaOutput(v) == Pick(v, {"type", "schema"})

\* version: z.string()
versionSchemaAnyString(v) == TRUE

versionSchemaAccepts(v) == v \in {PRIVATE_VERSION, PUBLIC_VERSION}

integrationDefinitionSchemaAccepts(v) ==
    /\ Has(v, "name")
    /\ Has(v, "version") /\ versionSchemaAccepts(v.version)
    /\ Has(v, "configuration") => configurationDefinitionSchemaAccepts(v.configuration)
    /\ Has(v, "events") =>
          \A k \in DOMAIN v.events : eventDefinitionSchemaAccepts(v.events[k])
    /\ Has(v, "actions") =>
          \A k \in DOMAIN v.actions : actionDefinitionSchemaAccepts(v.actions[k])
    /\ Has(v, "channels") =>
          \A k \in DOMAIN v.channels : channelDefinitionSchemaAccepts(v.channels[k])
    /\ Has(v, "states") =>
          \A k \in DOMAIN v.states : stateDefinitionSchemaAccepts(v.states[k])
    /\ Has(v, "user") => taggedSchemaAccepts(v.user, {"tags", "creation"})

manifestKeys ==
    {"name", "version", "title", "description", "icon", "readme", "configuration",
     "events", "actions", "channels", "states", "user", "secrets"}

integrationDefinitionSchemaOutput(v) ==
    [k \in (DOMAIN v) \cap manifestKeys |->
        CASE k = "configuration" -> configurationDefinitionSchemaOutput(v.configuration)
          [] k = "events" -> [x \in DOMAIN v.events |-> eventDefinitionSchemaOutput(v.events[x])]
          [] k = "actions" -> [x \in DOMAIN v.actions |-> actionDefinitionSchemaOutput(v.actions[x])]
          [] k = "channels" -> [x \in DOMAIN v.channels |-> channelDefinitionSchemaOutput(v.channels[x])]
          [] k = "states" -> [x \in DOMAIN v.states |-> stateDefinitionSchemaOutput(v.states[x])]
          [] k = "user" -> taggedSchemaOutput(v.user, {"tags", "creation"})
          [] OTHER -> v[k]]

-----------------------------------------------------------------------------
(* The definitions handed to the constructor. *)

\* no object, or the object that has the one key k with a value of S
Optional(k, S) == {EmptyObject} \cup {(k :> v) : v \in S}

\* the dictionaries whose keys are among Keys and whose values are in Values
Dictionaries(Keys, Values) == UNION {[ks -> Values] : ks \in SUBSET Keys}

ConfigurationProps ==
    { [schema |-> ZodPair],
      [schema |-> ZodText, ui |-> [text |-> [title |-> "Text"]]],  \* ui: no key of the manifest
      EmptyObject }                                                \* no schema

EventDicts ==
    { EmptyObject,
      [created |-> [title |-> "Created", description |-> "A message was created",
                    schema |-> ZodText],
       deleted |-> [schema |-> ZodEmpty]],
      [created |-> [title |-> "Created"]] }                        \* no schema

ActionDicts ==
    { [send |-> [title |-> "Send", input |-> [schema |-> ZodText],
                 output |-> [schema |-> ZodEmpty]]],
      [send |-> [output |-> [schema |-> ZodEmpty]]],               \* no input
      [send |-> [input |-> [schema |-> ZodText]]] }                \* no output

MessageNames == {"text", "image"}

MessageDicts ==
    Dictionaries(MessageNames, {[schema |-> ZodText]})
      \cup {[text |-> [schema |-> ZodText], image |-> EmptyObject]} \* image without schema

Tags == [id |-> [title |-> "Id", description |-> "The id"]]

Creation == [enabled |-> TRUE, requiredTags |-> <<"id">>]

ChannelDicts ==
    { [dm |-> [messages |-> m]] : m \in MessageDicts }
      \cup { [dm |-> [title |-> "Direct"]] }                       \* no messages
      \cup { [dm |-> [messages |-> [text |-> [schema |-> ZodText]]],
              group |-> [title |-> "Group", messages |-> [text |-> [schema |-> ZodPair]],
                         message |-> [tags |-> Tags],
                         conversation |-> [tags |-> Tags, creation |-> Creation]]] }

StateDicts ==
    { [creds |-> [type |-> "integration", schema |-> ZodPair]],
      [creds |-> [type |-> "bot", schema |-> ZodEmpty]],           \* no type of the manifest
      [creds |-> [schema |-> ZodText]],                            \* no type
      [creds |-> [type |-> "user"]] }                              \* no schema

UserProps == { [tags |-> Tags, creation |-> Creation] }

Versions == {PRIVATE_VERSION, PUBLIC_VERSION, "1.0.0"}

Texts ==
    { EmptyObject,
      [title |-> "Slack", description |-> "Interact with Slack", icon |-> "icon.svg",
       readme |-> "readme.md"] }

-----------------------------------------------------------------------------
(* new IntegrationDefinition(props) *)

NoInstance == EmptyObject

DefIdle ==
    /\ props = EmptyObject
    /\ instance = NoInstance
    /\ thrown = "none"
    /\ ctor = "idle"

BumpIdle ==
    /\ targetPackages = <<>>
    /\ sync = FALSE
    /\ files = EmptyObject
    /\ currentVersions = EmptyObject
    /\ targetVersions = EmptyObject
    /\ idx = 0
    /\ pc = "idle"
    /\ prompts = <<>>
    /\ writes = <<>>
    /\ error = <<>>
    /\ listed = 0
    /\ synced = <<>>

\* every choice of the scalar fields and of the sections, each declared or not
DefInit ==
    /\ \E n \in Optional("name", {"slack"}),
          v \in Optional("version", Versions),
          t \in Texts,
          c \in Optional("configuration", ConfigurationProps),
          e \in Optional("events", EventDicts),
          a \in Optional("actions", ActionDicts),
          h \in Optional("channels", ChannelDicts),
          s \in Optional("states", StateDicts),
          u \in Optional("user", UserProps),
          k \in Optional("secrets", {<<"SENTRY_DSN">>}) :
         props = n @@ v @@ t @@ c @@ e @@ a @@ h @@ s @@ u @@ k
    /\ instance = NoInstance
    /\ thrown = "none"
    /\ ctor = "new"
    /\ BumpIdle

\* the constructor: formatIntegrationDefinition raises (a TypeError), or parse
\* raises (a ZodError), or every field of the parsed manifest is assigned.
\* translationRaises: what the translation does where there is no declaration
\* to translate, which it either raises on or answers with undefined.
Construct ==
    /\ ctor = "new"
    /\ \E translationRaises \in BOOLEAN :
         IF \/ formatMapValuesThrows(props)
            \/ translationRaises /\ formatTranslationMissing(props)
         THEN /\ thrown' = "TypeError"
              /\ instance' = NoInstance
              /\ ctor' = "raised"
         ELSE LET integrationDefinitionInput == formatIntegrationDefinition(props)
              IN IF ~integrationDefinitionSchemaAccepts(integrationDefinitionInput)
                 THEN /\ thrown' = "ZodError"
                      /\ instance' = NoInstance
                      /\ ctor' = "raised"
                 ELSE /\ thrown' = "none"
                      /\ instance' = integrationDefinitionSchemaOutput(integrationDefinitionInput)
                      /\ ctor' = "constructed"
    /\ UNCHANGED <<props, bumpVars>>

DefNext == Construct

DefSpec == DefInit /\ [][DefNext]_vars

-----------------------------------------------------------------------------------------------------------------------------------------------------
(* semver: a version string is the sequence of its numbers, "1.2.3" being   *)
(* <<1, 2, 3>> and the prerelease "1.2.0-1" <<1, 2, 0, 1>>; a string of any *)
(* other length, such as "1.2", is no semantic version.                     *)

Null == <<>>

\* semver.inc(version, release): null for what is no version or no release type
semverInc(version, release) ==
    IF Len(version) \notin {3, 4} THEN Null
    ELSE LET major == version[1]
             minor == version[2]
             patch == version[3]
             prerelease == Len(version) = 4
         IN CASE release = "major" ->
                   IF minor # 0 \/ patch # 0 \/ ~prerelease
                   THEN <<major + 1, 0, 0>> ELSE <<major, 0, 0>>
              [] release = "minor" ->
                   IF patch # 0 \/ ~prerelease
                   THEN <<major, minor + 1, 0>> ELSE <<major, minor, 0>>
              [] release = "patch" ->
                   IF ~prerelease
                   THEN <<major, minor, patch + 1>> ELSE <<major, minor, patch>>
              [] OTHER -> Null

-----------------------------------------------------------------------------
(* bumpVersion *)

\* what a prompt answers: one of the four choices, or nothing when it is
\* cancelled
Jumps == {"patch", "minor", "major", "none", "undefined"}

\* the packages of the workspace: the dependency, then its dependents
MaxDependents == 2

PackageNames == <<"client", "sdk", "cli", "bot", "slack">>

PackageVersions == {<<1, 2, 3>>, <<0, 2, 0>>, <<1, 2, 0, 1>>, <<1, 2>>}

Workspaces ==
    UNION { { [i \in 1..n |-> [name |-> PackageNames[i], version |-> v[i], private |-> p[i]]] :
                v \in [1..n -> PackageVersions], p \in [1..n -> BOOLEAN] } :
            n \in 1..(MaxDependents + 1) }

\* utils.pnpm.versions: the version of every package, by name
versions(pkgs) ==
    [n \in {pkgs[i].name : i \in DOMAIN pkgs} |->
        pkgs[CHOOSE i \in DOMAIN pkgs : pkgs[i].name = n].version]

\* utils.pkgjson.update(pkgPath, { version })
pkgjsonUpdate(fs, name, version) == [fs EXCEPT ![name] = version]

BumpInit ==
    /\ targetPackages \in Workspaces
    /\ sync \in BOOLEAN
    /\ files = versions(targetPackages)
    /\ currentVersions = EmptyObject
    /\ targetVersions = EmptyObject
    /\ idx = 0
    /\ pc = "start"
    /\ prompts = <<>>
    /\ writes = <<>>
    /\ error = <<>>
    /\ listed = 0
    /\ synced = <<>>
    /\ DefIdle

\* lines 30-34: the target packages, their versions, and the copy to update
bumpBegin ==
    /\ pc = "start"
    /\ currentVersions' = versions(targetPackages)
    /\ targetVersions' = versions(targetPackages)
    /\ idx' = 1
    /\ pc' = "loop"
    /\ UNCHANGED <<targetPackages, sync, files, prompts, writes, error, listed, synced>>
    /\ UNCHANGED defVars

\* a private package is not prompted for
isPrompted(content) == ~content.private

\* without the test of content.private
loopOutcomeOfPrivate(content, jump) ==
    IF jump = "none" THEN "continue"
    ELSE IF semverInc(content.version, jump) = Null THEN "throw"
    ELSE "bump"

\* if (!jump || jump === 'none') continue
loopOutcomeOfCancel(content, jump) ==
    IF content.private THEN "continue"
    ELSE IF jump \in {"none", "undefined"} THEN "continue"
    ELSE IF semverInc(content.version, jump) = Null THEN "throw"
    ELSE "bump"

\* how one pass of the loop ends for a package and the answer of its prompt
loopOutcome(content, jump) ==
    IF content.private THEN "continue"
    ELSE IF jump = "none" THEN "continue"
    ELSE IF semverInc(content.version, jump) = Null THEN "throw"
    ELSE "bump"

\* new errors.DepSynkyError(`Invalid version jump: ${jump}`)
invalidJump(jump) == <<"DepSynkyError", "Invalid version jump: ", jump>>

\* the new version is written to the manifest only
setTargetVersionForgotten(tv, content, next) == tv

\* targetVersions[content.name] = next
setTargetVersion(tv, content, next) == [tv EXCEPT ![content.name] = next]

\* the manifest is written before next is tested
updateFilesBeforeTest(fs, content, outcome, next) ==
    IF outcome \in {"bump", "throw"} THEN [fs EXCEPT ![content.name] = next] ELSE fs

\* the manifests after a pass that ended as outcome
updateFiles(fs, content, outcome, next) ==
    IF outcome = "bump" THEN pkgjsonUpdate(fs, content.name, next) ELSE fs

\* lines 36-53: one pass of the loop, with the answer the prompt gets
bumpLoop ==
    /\ pc = "loop"
    /\ idx <= Len(targetPackages)
    /\ \E jump \in Jumps :
         LET content == targetPackages[idx]
             outcome == loopOutcome(content, jump)
             next == semverInc(content.version, jump)
         IN /\ prompts' = IF isPrompted(content)
                          THEN Append(prompts, [pkg |-> content.name, jump |-> jump])
                          ELSE prompts
            /\ files' = updateFiles(files, content, outcome, next)
            /\ writes' = IF files' # files
                         THEN Append(writes, [pkg |-> content.name, version |-> next])
                         ELSE writes
            /\ targetVersions' = IF outcome = "bump"
                                 THEN setTargetVersion(targetVersions, content, next)
                                 ELSE targetVersions
            /\ error' = IF outcome = "throw" THEN invalidJump(jump) ELSE error
            /\ pc' = IF outcome = "throw" THEN "failed" ELSE "loop"
            /\ idx' = IF outcome = "throw" THEN idx ELSE idx + 1
    /\ UNCHANGED <<targetPackages, sync, currentVersions, listed, synced>>
    /\ UNCHANGED defVars

\* line 55, once the loop is over
bumpListVersions ==
    /\ pc = "loop"
    /\ idx > Len(targetPackages)
    /\ listed' = listed + 1
    /\ pc' = "listed"
    /\ UNCHANGED <<targetPackages, sync, files, currentVersions, targetVersions, idx,
                   prompts, writes, error, synced>>
    /\ UNCHANGED defVars

\* without the test of argv.sync
syncAlways == TRUE

\* argv.sync
syncRequested == sync

\* lines 56-59
bumpSyncVersions ==
    /\ pc = "listed"
    /\ synced' = IF syncRequested THEN Append(synced, targetVersions) ELSE synced
    /\ pc' = "done"
    /\ UNCHANGED <<targetPackages, sync, files, currentVersions, targetVersions, idx,
                   prompts, writes, error, listed>>
    /\ UNCHANGED defVars

BumpNext == bumpBegin \/ bumpLoop \/ bumpListVersions \/ bumpSyncVersions

BumpSpec == BumpInit /\ [][BumpNext]_vars

-----------------------------------------------------------------------------
(* Both programs *)

Init == DefInit \/ BumpInit

Next == DefNext \/ BumpNext

Spec == Init /\ [][Next]_vars

-----
(* Claims about the IntegrationDefinition constructor, checked under DefSpec *)

sections == {"configuration", "events", "actions", "channels", "states", "user", "secrets"}

\* a declaration is there to be translated
Declares(x) == Has(x, "schema")

WellFormedMessages(channel) ==
    /\ Has(channel, "messages")
    /\ \A m \in DOMAIN channel.messages : Declares(channel.messages[m])

WellFormedCreation(x) ==
    Has(x, "creation") => (Has(x.creation, "enabled") /\ Has(x.creation, "requiredTags"))

\* every declared section but the channels' message dictionaries is well-formed
WellFormedSections(d) ==
    /\ Has(d, "configuration") => Declares(d.configuration)
    /\ Has(d, "events") => \A k \in DOMAIN d.events : Declares(d.events[k])
    /\ Has(d, "actions") =>
          \A k \in DOMAIN d.actions :
             /\ Has(d.actions[k], "input") /\ Declares(d.actions[k].input)
             /\ Has(d.actions[k], "output") /\ Declares(d.actions[k].output)
    /\ Has(d, "channels") =>
          \A k \in DOMAIN d.channels :
             /\ WellFormedMessages(d.channels[k])
             /\ Has(d.channels[k], "conversation") => WellFormedCreation(d.channels[k].conversation)
    /\ Has(d, "states") =>
          \A k \in DOMAIN d.states :
             /\ Has(d.states[k], "type")
             /\ d.states[k].type \in {"integration", "conversation", "user"}
             /\ Declares(d.states[k])
    /\ Has(d, "user") => WellFormedCreation(d.user)

NoEmptyMessages(d) ==
    Has(d, "channels") =>
       \A k \in DOMAIN d.channels :
          Has(d.channels[k], "messages") => DOMAIN d.channels[k].messages # {}

AcceptedVersion(d) == Has(d, "version") /\ d.version \in {"0.0.1", "0.2.0"}

\* the definition conforms to the fixed manifest shape
Conforms(d) ==
    /\ Has(d, "name")
    /\ AcceptedVersion(d)
    /\ WellFormedSections(d)
    /\ NoEmptyMessages(d)

\* x with its declaration replaced by the JSON-Schema translation of it
Translated(x) ==
    [k \in DOMAIN x |-> IF k = "schema" THEN zodToJsonSchema(x.schema) ELSE x[k]]

\* the input's fields, every declaration replaced by its translation
TranslatedFields(d) ==
    [f \in (DOMAIN d) \cap manifestKeys |->
        CASE f = "configuration" -> Translated(d.configuration)
          [] f \in {"events", "states"} -> [k \in DOMAIN d[f] |-> Translated(d[f][k])]
          [] f = "actions" ->
                [k \in DOMAIN d.actions |->
                    [j \in DOMAIN d.actions[k] |->
                        IF j \in {"input", "output"} THEN Translated(d.actions[k][j])
                        ELSE d.actions[k][j]]]
          [] f = "channels" ->
                [k \in DOMAIN d.channels |->
                    [j \in DOMAIN d.channels[k] |->
                        IF j = "messages"
                        THEN [m \in DOMAIN d.channels[k].messages |->
                                 Translated(d.channels[k].messages[m])]
                        ELSE d.channels[k][j]]]
          [] OTHER -> d[f]]

\* C1 as stated: the constructor accepts every conforming definition and each
\* field of the result equals the input's field, declarations translated.
C1_FieldsEqualInput ==
    (ctor # "new" /\ Conforms(props)) =>
        (ctor = "constructed" /\ instance = TranslatedFields(props))

\* tags and creation as the manifest keeps them
DeclaredTagged(x) ==
    [j \in (DOMAIN x) \cap {"tags", "creation"} |->
        IF j = "tags" THEN [t \in DOMAIN x.tags |-> Pick(x.tags[t], {"title", "description"})]
        ELSE Pick(x.creation, {"enabled", "requiredTags"})]

\* the input's fields as the manifest keeps them: declarations translated, and
\* the keys that the manifest schema does not declare left out
ManifestFields(d) ==
    LET t == TranslatedFields(d)
    IN [f \in DOMAIN t |->
        CASE f = "configuration" -> Pick(t.configuration, {"schema"})
          [] f = "events" ->
                [k \in DOMAIN t.events |-> Pick(t.events[k], {"title", "description", "schema"})]
          [] f = "actions" ->
                [k \in DOMAIN t.actions |->
                    [j \in (DOMAIN t.actions[k]) \cap {"title", "description", "input", "output"} |->
                        IF j \in {"input", "output"} THEN Pick(t.actions[k][j], {"schema"})
                        ELSE t.actions[k][j]]]
          [] f = "channels" ->
                [k \in DOMAIN t.channels |->
                    [j \in (DOMAIN t.channels[k]) \cap
                             {"title", "description", "messages", "message", "conversation"} |->
                        CASE j = "messages" ->
                                [m \in DOMAIN t.channels[k].messages |->
                                    Pick(t.channels[k].messages[m], {"schema"})]
                          [] j = "message" -> Pick(DeclaredTagged(t.channels[k].message), {"tags"})
                          [] j = "conversation" -> DeclaredTagged(t.channels[k].conversation)
                          [] OTHER -> t.channels[k][j]]]
          [] f = "states" ->
                [k \in DOMAIN t.states |-> Pick(t.states[k], {"type", "schema"})]
          [] f = "user" -> DeclaredTagged(t.user)
          [] OTHER -> t[f]]

\* a section carries a key the manifest schema does not declare for it
UndeclaredKeys(d) ==
    \/ Has(d, "configuration") /\ ~(DOMAIN d.configuration \subseteq {"schema"})
    \/ Has(d, "events") /\ \E k \in DOMAIN d.events :
          ~(DOMAIN d.events[k] \subseteq {"title", "description", "schema"})
    \/ Has(d, "actions") /\ \E k \in DOMAIN d.actions :
          \/ ~(DOMAIN d.actions[k] \subseteq {"title", "description", "input", "output"})
          \/ \E j \in (DOMAIN d.actions[k]) \cap {"input", "output"} :
                ~(DOMAIN d.actions[k][j] \subseteq {"schema"})
    \/ Has(d, "channels") /\ \E k \in DOMAIN d.channels :
          \/ ~(DOMAIN d.channels[k] \subseteq
                  {"title", "description", "messages", "message", "conversation"})
          \/ Has(d.channels[k], "messages") /\ \E m \in DOMAIN d.channels[k].messages :
                ~(DOMAIN d.channels[k].messages[m] \subseteq {"schema"})
    \/ Has(d, "states") /\ \E k \in DOMAIN d.states :
          ~(DOMAIN d.states[k] \subseteq {"type", "schema"})

\* C1, amended: the constructor accepts every conforming definition; each field
\* of the result equals the input's field with the declarations translated and
\* with the keys the manifest schema does not declare left out, and so equals
\* the translated input field itself where the input carries no such key.
C1_FieldsEqualDeclaredInput ==
    (ctor # "new" /\ Conforms(props)) =>
        /\ ctor = "constructed"
        /\ instance = ManifestFields(props)
        /\ ~UndeclaredKeys(props) => instance = TranslatedFields(props)

\* a conforming definition with every section declared, one of them with a key
\* the manifest does not declare, has been constructed
C1_Witness ==
    /\ ctor = "constructed"
    /\ DOMAIN props = manifestKeys
    /\ Has(props.configuration, "ui")
    /\ DOMAIN instance = manifestKeys

\* C2: a definition whose version is neither '0.0.1' nor '0.2.0' makes the
\* constructor raise, and no definition object is produced.
C2_UnknownVersionRaises ==
    (ctor # "new" /\ ~AcceptedVersion(props)) =>
        (ctor = "raised" /\ thrown # "none" /\ instance = NoInstance)

\* a definition that is well-formed but for its version "1.0.0" was rejected
C2_Witness ==
    /\ ctor = "raised"
    /\ Has(props, "version") /\ props.version = "1.0.0"
    /\ Has(props, "name") /\ WellFormedSections(props) /\ NoEmptyMessages(props)
    /\ DOMAIN props = manifestKeys

\* a required field of the manifest schema is missing
MissingRequired(d) ==
    \/ ~Has(d, "name")
    \/ Has(d, "configuration") /\ ~Declares(d.configuration)
    \/ Has(d, "events") /\ \E k \in DOMAIN d.events : ~Declares(d.events[k])
    \/ Has(d, "channels") /\ \E k \in DOMAIN d.channels :
          Has(d.channels[k], "messages") /\
          \E m \in DOMAIN d.channels[k].messages : ~Declares(d.channels[k].messages[m])
    \/ Has(d, "states") /\ \E k \in DOMAIN d.states : ~Declares(d.states[k])
    \/ Has(d, "actions") /\ \E k \in DOMAIN d.actions :
          ~Has(d.actions[k], "input") \/ ~Has(d.actions[k], "output")
    \/ Has(d, "states") /\ \E k \in DOMAIN d.states :
          ~Has(d.states[k], "type") \/ d.states[k].type \notin {"integration", "conversation", "user"}

\* C3: the constructor raises whenever a required field of the manifest schema
\* is missing: the name, the schema of a configuration, event, channel message
\* or state, the input or output of an action, the type of a state.
C3_MissingRequiredRaises ==
    (ctor # "new" /\ MissingRequired(props)) => (ctor = "raised" /\ thrown # "none")

\* parse has rejected a definition whose one defect is a state without a type
C3_Witness ==
    /\ ctor = "raised" /\ thrown = "ZodError"
    /\ Has(props, "name") /\ AcceptedVersion(props) /\ NoEmptyMessages(props)
    /\ Has(props, "states") /\ \E k \in DOMAIN props.states : ~Has(props.states[k], "type")
    /\ WellFormedSections(Without(props, "states"))

\* C4: on a constructed definition, an optional section the input omits is
\* absent: it is not materialised as an empty object or list.
C4_OmittedSectionsAbsent ==
    ctor = "constructed" => \A k \in sections : ~Has(props, k) => ~Has(instance, k)

\* a definition that declares no optional section at all has been constructed
C4_Witness ==
    /\ ctor = "constructed"
    /\ DOMAIN props \cap sections = {}
    /\ DOMAIN instance = {"name", "version"}

EmptyMessages(d) ==
    /\ Has(d, "channels")
    /\ \E k \in DOMAIN d.channels :
          Has(d.channels[k], "messages") /\ DOMAIN d.channels[k].messages = {}

\* C10: the constructor raises whenever a declared channel has an empty
\* messages dictionary; a definition that is well-formed and whose channels
\* each declare one message or more is constructed, with those messages.
C10_EmptyMessagesRaise ==
    /\ (ctor # "new" /\ EmptyMessages(props)) => (ctor = "raised" /\ thrown # "none")
    /\ (ctor # "new" /\ Has(props, "channels") /\ Conforms(props)) =>
          /\ ctor = "constructed"
          /\ \A k \in DOMAIN props.channels :
                DOMAIN instance.channels[k].messages = DOMAIN props.channels[k].messages

\* parse has rejected a definition whose one defect is a channel without any
\* message
C10_Witness ==
    /\ ctor = "raised" /\ thrown = "ZodError"
    /\ EmptyMessages(props)
    /\ Has(props, "name") /\ AcceptedVersion(props) /\ WellFormedSections(props)

\* a definition with a channel of two messages has been constructed
C10_WitnessAccepted ==
    /\ ctor = "constructed"
    /\ Has(props, "channels")
    /\ \E k \in DOMAIN props.channels : Cardinality(DOMAIN props.channels[k].messages) = 2

-----------------------------------------------------------------------------
(* Claims about bumpVersion, checked under BumpSpec *)

names == {targetPackages[i].name : i \in DOMAIN targetPackages}

ContentOf(name) == targetPackages[CHOOSE i \in DOMAIN targetPackages : targetPackages[i].name = name]

PlaceOf(name) == CHOOSE i \in DOMAIN targetPackages : targetPackages[i].name = name

Written(name) == \E w \in DOMAIN writes : writes[w].pkg = name

\* the version X.Y.Z bumped by jump, by the rules of semantic versioning
Bumped(v, jump) ==
    CASE jump = "patch" -> <<v[1], v[2], v[3] + 1>>
      [] jump = "minor" -> <<v[1], v[2] + 1, 0>>
      [] jump = "major" -> <<v[1] + 1, 0, 0>>

\* C5: for a package that is not private and has a version X.Y.Z, the answer
\* patch, minor or major writes X.Y.(Z+1), X.(Y+1).0 or (X+1).0.0 to its
\* manifest and records it in targetVersions; the answer none writes nothing
\* and leaves its targetVersions entry at the current version.
C5_BumpWritesNextVersion ==
    \A k \in DOMAIN prompts :
        LET name == prompts[k].pkg
            jump == prompts[k].jump
            v == ContentOf(name).version
        IN Len(v) = 3 =>
            /\ jump \in {"patch", "minor", "major"} =>
                  /\ files[name] = Bumped(v, jump)
                  /\ targetVersions[name] = Bumped(v, jump)
            /\ jump = "none" =>
                  /\ ~Written(name)
                  /\ files[name] = v
                  /\ targetVersions[name] = v

\* three packages with versions X.Y.Z were bumped, one by each kind of jump
C5_Witness ==
    /\ pc = "done"
    /\ \A i \in DOMAIN targetPackages : Len(targetPackages[i].version) = 3
    /\ {prompts[k].jump : k \in DOMAIN prompts} = {"patch", "minor", "major"}
    /\ Len(writes) = 3

\* C6 as stated: when the command ends by raising, no manifest has been
\* modified, those of the packages handled earlier in the loop included.
C6_AllOrNothing ==
    pc = "failed" => \A n \in names : files[n] = ContentOf(n).version

\* C6, amended: when the command ends by raising, the manifest of the package
\* it raised for and of every later package is unmodified, and every manifest
\* written earlier in the loop keeps the new version: nothing is rolled back.
C6_NoRollback ==
    pc = "failed" =>
        /\ \A i \in DOMAIN targetPackages :
              i >= idx => files[targetPackages[i].name] = targetPackages[i].version
        /\ \A w \in DOMAIN writes :
              /\ PlaceOf(writes[w].pkg) < idx
              /\ files[writes[w].pkg] = writes[w].version
              /\ files[writes[w].pkg] # ContentOf(writes[w].pkg).version

\* the command raised after it had written the manifest of an earlier package
C6_Witness ==
    /\ pc = "failed"
    /\ writes # <<>>
    /\ \E n \in names : files[n] # ContentOf(n).version

\* no next version can be computed for the version and the answer
NoNextVersion(v, jump) == Len(v) \notin {3, 4} \/ jump \notin {"patch", "minor", "major"}

\* the packages handled so far that are not private, in the order of the loop
PromptedSoFar ==
    LET handled == IF pc = "failed" THEN idx ELSE idx - 1
        shown == SelectSeq(SubSeq(targetPackages, 1, handled), LAMBDA c : ~c.private)
    IN [k \in DOMAIN shown |-> shown[k].name]

PromptedNames == [k \in DOMAIN prompts |-> prompts[k].pkg]

\* C7: when the answer for a package is not none and no next version can be
\* computed (a cancelled prompt included), the command raises DepSynkyError
\* 'Invalid version jump: <answer>'; after it no package is prompted, no
\* manifest is written and neither listVersions nor syncVersions runs.
C7_InvalidJumpRaises ==
    /\ \A k \in DOMAIN prompts :
          LET jump == prompts[k].jump
              v == ContentOf(prompts[k].pkg).version
          IN (jump # "none" /\ NoNextVersion(v, jump)) =>
                /\ pc = "failed"
                /\ error = <<"DepSynkyError", "Invalid version jump: ", jump>>
                /\ k = Len(prompts)
                /\ PlaceOf(prompts[k].pkg) = idx
                /\ ~Written(prompts[k].pkg)
    /\ pc = "failed" =>
          /\ \A w \in DOMAIN writes : PlaceOf(writes[w].pkg) < idx
          /\ PromptedNames = PromptedSoFar
          /\ listed = 0
          /\ synced = <<>>

\* a cancelled prompt ended the command after an earlier package was bumped and
\* before a later one was handled
C7_Witness ==
    /\ pc = "failed"
    /\ error = <<"DepSynkyError", "Invalid version jump: ", "undefined">>
    /\ writes # <<>>
    /\ idx < Len(targetPackages)
    /\ ~targetPackages[idx + 1].private

\* the targetVersions that syncVersions is to receive
ExpectedTargetVersions ==
    [n \in names |->
        IF \E k \in DOMAIN prompts : prompts[k].pkg = n /\ prompts[k].jump # "none"
        THEN files[n]
        ELSE ContentOf(n).version]

\* C8: the loop over [dependency, ...dependents] runs in that order, one
\* package at a time, before anything else; listVersions runs once and only
\* after the last package; syncVersions runs only when argv.sync is set, after
\* listVersions, with the new version of every package bumped and the current
\* version of every other package.
C8_LoopThenListThenSync ==
    /\ PromptedNames = PromptedSoFar
    /\ listed <= 1
    /\ listed = 1 => idx > Len(targetPackages)
    /\ listed = 1 <=> pc \in {"listed", "done"}
    /\ Len(synced) <= 1
    /\ synced # <<>> =>
          /\ sync
          /\ listed = 1
          /\ synced[1] = ExpectedTargetVersions
          /\ \A k \in DOMAIN prompts :
                prompts[k].jump # "none" =>
                    /\ Written(prompts[k].pkg)
                    /\ synced[1][prompts[k].pkg] # ContentOf(prompts[k].pkg).version
    /\ pc = "done" => (sync <=> Len(synced) = 1)

\* syncVersions ran after three packages were handled, one bumped and one not
C8_Witness ==
    /\ pc = "done"
    /\ Len(synced) = 1
    /\ Len(targetPackages) = 3
    /\ \E n \in names : synced[1][n] # ContentOf(n).version
    /\ \E k \in DOMAIN prompts : prompts[k].jump = "none"

\* C9: a private package is never prompted for and its manifest is never
\* written; its targetVersions entry stays at its current version.
C9_PrivateUntouched ==
    \A i \in DOMAIN targetPackages :
        LET content == targetPackages[i]
        IN content.private =>
            /\ \A k \in DOMAIN prompts : prompts[k].pkg # content.name
            /\ ~Written(content.name)
            /\ files[content.name] = content.version
            /\ pc # "start" =>
                  /\ currentVersions[content.name] = content.version
                  /\ targetVersions[content.name] = content.version

\* the command went past a private package and bumped the package after it
C9_Witness ==
    /\ pc = "done"
    /\ \E i \in DOMAIN targetPackages :
          /\ targetPackages[i].private
          /\ i < Len(targetPackages)
          /\ Written(targetPackages[i + 1].name)

====
